---- MODULE Spec2Model ----
(***************************************************************************)
(* Agreement-score computation of scripts/compute_agreement_scores.py:     *)
(* label normalisation, pairwise rank encoding, per-unit agreement counts  *)
(* and the pool-based reduction per language pair.                         *)
(*                                                                         *)
(* Python strings that the program splits, sorts or searches are modelled  *)
(* as sequences of one-character strings ("a>b" is <<"a", ">", "b">>).     *)
(* Language names, which are only looked up and concatenated, are TLA+     *)
(* strings.                                                                *)
(***************************************************************************)
EXTENDS Integers, Sequences, FiniteSets, TLC

VARIABLES
    arg,            \* argument of the function under study (function specifications)
    ret,            \* its return value, None before the call
    args,           \* parsed command line: [inter, intra]
    rows,           \* rows of the results file not read yet
    results_data,   \* language pair -> segment id -> list of (coder, item, label)
    pc,             \* position of the main thread
    lp,             \* index into language_pairs of the pair being processed
    handles,        \* units dispatched for the current pair (one handle each)
    outqueue,       \* unit -> value a worker returned, not yet seen by the result handler
    handling,       \* <<unit>> while the result handler is between callback and ready
    scores,         \* list the callback appends to
    ready,          \* handles whose ready() is True
    raised,         \* units whose call raised inside the try block
    average_scores, \* the four sums of the current pair, None before the reduction
    output,         \* lines printed so far: (language_pair, identical, comparable)
    error           \* exception that ended the run, None if there is none

vars == <<arg, ret, args, rows, results_data, pc, lp, handles, outqueue, handling,
          scores, ready, raised, average_scores, output, error>>

\* Python's None. An optional field is <<>> or <<value>>.
None == <<>>

-----------------------------------------------------------------------------
(* Python string and list primitives.                                      *)

\* The characters the model uses, in code point order.
Alphabet == <<"+", "-", ".", "0", "1", "2", "3", "4", "5", "6", "7", "8", "9",
              "<", "=", ">", "a", "b", "c", "x", "y", "z">>

Ord(c) == CHOOSE i \in 1..Len(Alphabet) : Alphabet[i] = c

\* sep in s
Contains(s, sep) == \E i \in 1..Len(s) : s[i] = sep

\* s < t for two strings (lexicographic on code points)
RECURSIVE StrLess(_, _)
StrLess(s, t) ==
    IF t = <<>> THEN FALSE
    ELSE IF s = <<>> THEN TRUE
    ELSE IF Ord(Head(s)) < Ord(Head(t)) THEN TRUE
    ELSE IF Ord(Head(s)) > Ord(Head(t)) THEN FALSE
    ELSE StrLess(Tail(s), Tail(t))

\* s.split(sep) for a one-character separator
RECURSIVE Split(_, _)
Split(s, sep) ==
    IF ~Contains(s, sep) THEN <<s>>
    ELSE LET i == CHOOSE k \in 1..Len(s) :
                      s[k] = sep /\ \A j \in 1..(k-1) : s[j] # sep
         IN  <<SubSeq(s, 1, i-1)>> \o Split(SubSeq(s, i+1, Len(s)), sep)

\* sep.join(parts)
RECURSIVE Join(_, _)
Join(parts, sep) ==
    IF parts = <<>> THEN <<>>
    ELSE IF Len(parts) = 1 THEN parts[1]
    ELSE parts[1] \o <<sep>> \o Join(Tail(parts), sep)

RECURSIVE Insert(_, _)
Insert(s, sorted) ==
    IF sorted = <<>> THEN <<s>>
    ELSE IF StrLess(s, Head(sorted)) THEN <<s>> \o sorted
    ELSE <<Head(sorted)>> \o Insert(s, Tail(sorted))

\* list.sort() on a list of strings
RECURSIVE Sort(_)
Sort(list) ==
    IF list = <<>> THEN <<>>
    ELSE Insert(list[Len(list)], Sort(SubSeq(list, 1, Len(list) - 1)))

\* set(list)
ToSet(list) == {list[i] : i \in 1..Len(list)}

\* '{0}'.format(n) for n >= 0
RECURSIVE Str(_)
Str(n) ==
    IF n < 10 THEN <<Alphabet[Ord("0") + n]>>
    ELSE Str(n \div 10) \o <<Alphabet[Ord("0") + (n % 10)]>>

\* sum(f.values()) for a dictionary of numbers
RECURSIVE SumValues(_)
SumValues(f) ==
    IF DOMAIN f = {} THEN 0
    ELSE LET k == CHOOSE k \in DOMAIN f : TRUE
         IN  f[k] + SumValues([j \in DOMAIN f \ {k} |-> f[j]])

\* itertools.combinations(range(1, n+1), 2), in the order it yields them
RECURSIVE CombinationsFrom(_, _, _)
CombinationsFrom(a, b, n) ==
    IF a >= n THEN <<>>
    ELSE IF b > n THEN CombinationsFrom(a + 1, a + 2, n)
    ELSE <<(<<a, b>>)>> \o CombinationsFrom(a, b + 1, n)

Combinations(n) == CombinationsFrom(1, 2, n)

-----------------------------------------------------------------------------
(* extract_system_ids_from_label                                           *)

\* The list the separator loop leaves in label_systems.
SplitOnSeparator(label) ==
    IF Contains(label, ">") THEN Split(label, ">")
    ELSE IF Contains(label, "<") THEN Split(label, "<")
    ELSE IF Contains(label, "=") THEN Split(label, "=")
    ELSE <<>>

CleanSystem(label_system) == Join(Sort(Split(label_system, "+")), "+")

extract_system_ids_from_label(label) ==
    LET label_systems == Sort(SplitOnSeparator(label))
    IN  [i \in 1..Len(label_systems) |-> CleanSystem(label_systems[i])]

-----------------------------------------------------------------------------
(* compute_agreement_scores: data is a list of (coder, item, labels).       *)

\* _by_items: item -> the labels of its triples, in the order of data
ByItems(data) ==
    [item \in {data[i][2] : i \in 1..Len(data)} |->
        LET triples == SelectSeq(data, LAMBDA t : t[2] = item)
        IN  [i \in 1..Len(triples) |-> triples[i][3]]]

\* Variant: the two lists compared without set().
ComparableAsLists(first_label, second_label) ==
    extract_system_ids_from_label(first_label)
        = extract_system_ids_from_label(second_label)

\* set(first_label_systems) == set(second_label_systems)
ComparableLabels(first_label, second_label) ==
    ToSet(extract_system_ids_from_label(first_label))
        = ToSet(extract_system_ids_from_label(second_label))

\* What one pass of the loop over _by_items.values() adds to the four counters.
ItemCounts(item_labels) ==
    LET n == Len(item_labels)
        pairs == IF n > 1 THEN ToSet(Combinations(n)) ELSE {}
        comparable == {p \in pairs :
                          ComparableLabels(item_labels[p[1]], item_labels[p[2]])}
        identical == {p \in comparable : item_labels[p[1]] = item_labels[p[2]]}
        ties == {i \in 1..n : Contains(item_labels[i], "=")}
    IN  <<Cardinality(identical), Cardinality(comparable), Cardinality(ties), n>>

\* (identical_cnt, comparable_cnt, ties_cnt, ties_total)
compute_agreement_scores(data) ==
    LET by_items == ByItems(data)
        counts == [item \in DOMAIN by_items |-> ItemCounts(by_items[item])]
    IN  [i \in 1..4 |-> SumValues([item \in DOMAIN by_items |-> counts[item][i]])]

-----------------------------------------------------------------------------
(* Reading a row of the results file and encoding it as judgements.         *)
(* A row is [srclang, trglang, srcIndex, judgeId, cols]; cols[y] holds the   *)
(* fields system<y>Id and system<y>rank, each <<value>>, or None where the   *)
(* row lacks the key.                                                      *)

MAX_NUMBER_OF_SYSTEMS == 5

LANGUAGE_CODE_TO_NAME ==
    [c \in {"ces", "deu", "fra", "fre", "esn", "fin", "rus", "hin", "eng"} |->
        CASE c = "ces" -> "Czech"   [] c = "deu" -> "German"
          [] c = "fra" -> "French"  [] c = "fre" -> "French"
          [] c = "esn" -> "Spanish" [] c = "fin" -> "Finnish"
          [] c = "rus" -> "Russian" [] c = "hin" -> "Hindi"
          [] c = "eng" -> "English"]

LanguageName(code) ==
    IF code \in DOMAIN LANGUAGE_CODE_TO_NAME THEN LANGUAGE_CODE_TO_NAME[code]
    ELSE code

\* '{0}-{1}'.format(src_lang, trg_lang)
LanguagePair(row) == LanguageName(row.srclang) \o "-" \o LanguageName(row.trglang)

\* row.get('system<y>Id', None)
SystemId(row, y) == IF y <= Len(row.cols) THEN row.cols[y].id ELSE None

\* int(row.get('system<y>rank', -1))
SystemRank(row, y) ==
    IF y <= Len(row.cols) /\ row.cols[y].rank # None THEN row.cols[y].rank[1] ELSE -1

\* The slots kept by the loop over range(MAX_NUMBER_OF_SYSTEMS): the column
\* numbers whose system id is not None, in order.
Slots(row) ==
    SelectSeq([y \in 1..MAX_NUMBER_OF_SYSTEMS |-> y],
              LAMBDA y : SystemId(row, y) # None)

Systems(row) == [a \in 1..Len(Slots(row)) |-> SystemId(row, Slots(row)[a])[1]]

Rankings(row) == [a \in 1..Len(Slots(row)) |-> SystemRank(row, Slots(row)[a])]

\* '{0}.{1}.{2}'.format(segment_id, systems[a], systems[b])
ItemId(segment_id, system_a, system_b) ==
    Str(segment_id) \o <<".">> \o system_a \o <<".">> \o system_b

\* _v for a pair whose two rankings are not -1
RankLabel(system_a, rank_a, system_b, rank_b) ==
    IF rank_a < rank_b THEN system_a \o <<">">> \o system_b
    ELSE IF rank_a > rank_b THEN system_a \o <<"<">> \o system_b
    ELSE system_a \o <<"=">> \o system_b

\* Variant: only the first ranking tested against -1.
SkippedFirstOnly(rank_a, rank_b) == rank_a = -1

\* rankings[a] == -1 or rankings[b] == -1
SkippedPair(rank_a, rank_b) == rank_a = -1 \/ rank_b = -1

\* The (_c, _i, _v) triples one row appends, in order.
RowJudgements(row) ==
    LET systems == Systems(row)
        rankings == Rankings(row)
        kept == SelectSeq(Combinations(Len(systems)),
                          LAMBDA p : ~SkippedPair(rankings[p[1]], rankings[p[2]]))
    IN  IF Len(systems) < 2 THEN <<>>
        ELSE [k \in 1..Len(kept) |->
                LET a == kept[k][1]
                    b == kept[k][2]
                IN  <<row.judgeId,
                      ItemId(row.srcIndex, systems[a], systems[b]),
                      RankLabel(systems[a], rankings[a], systems[b], rankings[b])>>]

-----------------------------------------------------------------------------
(* Bounds and the inputs drawn within them.                                *)

MaxTie == 2     \* system ids in one '+'-joined tie group
MaxData == 3    \* triples in one call of compute_agreement_scores
EncCols == 4    \* system columns of a row handed to the encoder
MaxRows == 3    \* rows of a results file with one segment
MaxBarrierRows == 4 \* rows of a results file with two segments

Segments == {1, 2}

SystemIds == {<<"a">>, <<"b">>, <<"c">>}
Separators == {">", "<", "="}

\* The sequences over S of length lo..hi
SeqsOf(S, lo, hi) == UNION {[1..n -> S] : n \in lo..hi}

TieGroups ==
    {g \in SeqsOf(SystemIds, 1, MaxTie) : \A i, j \in 1..Len(g) : i # j => g[i] # g[j]}

\* Well-formed labels: two disjoint tie groups around one separator.
WellFormedLabels ==
    {Join(g[1], "+") \o <<sep>> \o Join(g[2], "+") :
        g \in {h \in TieGroups \X TieGroups : ToSet(h[1]) \cap ToSet(h[2]) = {}},
        sep \in Separators}

Coders == {"A", "B"}

DataItems == {<<"1", ".", "a", ".", "b">>, <<"1", ".", "a", ".", "c">>}

DataLabels ==
    {<<"a", "=", "b">>, <<"c", "+", "a", ">", "b">>, <<"b", "<", "a", "+", "c">>}

Cols ==
    {[id |-> None, rank |-> None]}
        \cup [id : {<<(<<"a">>)>>, <<(<<"b">>)>>}, rank : {None, <<-1>>, <<1>>, <<2>>}]

IdleProgram ==
    /\ args = [inter |-> TRUE, intra |-> FALSE]
    /\ rows = <<>>
    /\ results_data = <<>>
    /\ lp = 0
    /\ handles = {}
    /\ outqueue = <<>>
    /\ handling = None
    /\ scores = <<>>
    /\ ready = {}
    /\ raised = {}
    /\ average_scores = None
    /\ output = <<>>
    /\ error = "none"

program == <<args, rows, results_data, lp, handles, outqueue, handling, scores,
             ready, raised, average_scores, output, error>>

-----------------------------------------------------------------------------
(* The label normaliser applied to two well-formed labels.                  *)

InitNorm ==
    /\ arg \in WellFormedLabels \X WellFormedLabels
    /\ ret = None
    /\ pc = "call"
    /\ IdleProgram

Normalize ==
    /\ pc = "call"
    /\ ret' = <<extract_system_ids_from_label(arg[1]),
                extract_system_ids_from_label(arg[2])>>
    /\ pc' = "return"
    /\ UNCHANGED <<arg, program>>

SpecNorm == InitNorm /\ [][Normalize]_vars

(* The aggregator applied to a list of triples.                             *)

InitAgg ==
    /\ arg \in SeqsOf(Coders \X DataItems \X DataLabels, 0, MaxData)
    /\ ret = None
    /\ pc = "call"
    /\ IdleProgram

Aggregate ==
    /\ pc = "call"
    /\ ret' = compute_agreement_scores(arg)
    /\ pc' = "return"
    /\ UNCHANGED <<arg, program>>

SpecAgg == InitAgg /\ [][Aggregate]_vars

(* The encoder applied to one row.                                          *)

InitEnc ==
    /\ arg \in [srclang : {"ces"}, trglang : {"eng"}, srcIndex : {1},
                 judgeId : {"A"}, cols : SeqsOf(Cols, EncCols, EncCols)]
    /\ ret = None
    /\ pc = "call"
    /\ IdleProgram

Encode ==
    /\ pc = "call"
    /\ ret' = RowJudgements(arg)
    /\ pc' = "return"
    /\ UNCHANGED <<arg, program>>

SpecEnc == InitEnc /\ [][Encode]_vars

-----------------------------------------------------------------------------
(* The main program: read the rows, then, one language pair after another,  *)
(* dispatch the units to the pool, wait, sum and report.                    *)

language_pairs ==
    <<"Czech-English", "English-Czech", "German-English", "English-German",
      "Spanish-English", "English-Spanish", "French-English", "English-French",
      "Russian-English", "English-Russian", "Finnish-English", "English-Finnish">>

\* results_data[language_pair] of the defaultdict
SegmentsData(language_pair) ==
    IF language_pair \in DOMAIN results_data THEN results_data[language_pair]
    ELSE <<>>

\* results_data after results_data[language_pair][segment_id].append(j) for
\* every j of judgements
Appended(language_pair, segment_id, judgements) ==
    LET segments == SegmentsData(language_pair)
        old == IF segment_id \in DOMAIN segments THEN segments[segment_id] ELSE <<>>
        new == [s \in DOMAIN segments \cup {segment_id} |->
                   IF s = segment_id THEN old \o judgements ELSE segments[s]]
    IN  IF judgements = <<>> THEN results_data
        ELSE [l \in DOMAIN results_data \cup {language_pair} |->
                 IF l = language_pair THEN new ELSE results_data[l]]

\* _coders.keys()
CodersOf(judgements) == {judgements[i][1] : i \in 1..Len(judgements)}

\* _coders[_coder]: the judgements of one coder in a segment
CoderJudgements(judgements, coder) == SelectSeq(judgements, LAMBDA t : t[1] = coder)

\* not all([len(x)<2 for x in _items.values()])
HasRepeatedItem(items) == \E i \in DOMAIN items : Len(items[i]) >= 2

\* renamed_judgements for the dictionary _items of one coder
RECURSIVE RenamedJudgements(_, _)
RenamedJudgements(coder, items) ==
    IF DOMAIN items = {} THEN <<>>
    ELSE LET i == CHOOSE i \in DOMAIN items : TRUE
         IN  [d \in 1..Len(items[i]) |->
                 <<coder \o "-" \o ToString(d - 1), i, items[i][d]>>]
             \o RenamedJudgements(coder, [j \in DOMAIN items \ {i} |-> items[j]])

AllCoders == "*"

\* The apply_async calls the loop over segments_data makes for a language pair:
\* one per segment (inter), or one per segment and eligible coder (intra).
Units(language_pair) ==
    LET segments == SegmentsData(language_pair)
    IN  IF args.inter
        THEN {[segment |-> s, coder |-> AllCoders] : s \in DOMAIN segments}
        ELSE UNION {{[segment |-> s, coder |-> c] :
                        c \in {c \in CodersOf(segments[s]) :
                                 HasRepeatedItem(ByItems(CoderJudgements(segments[s], c)))}} :
                    s \in DOMAIN segments}

\* The args of the apply_async call of a unit
UnitData(language_pair, u) ==
    LET judgements == SegmentsData(language_pair)[u.segment]
    IN  IF args.inter THEN judgements
        ELSE RenamedJudgements(u.coder, ByItems(CoderJudgements(judgements, u.coder)))

\* Variant: the loop ends as soon as one handle is ready.
AnyReady == handles = {} \/ \E h \in handles : h \in ready

\* not any([not x.ready() for x in handles])
AllReady == \A h \in handles : h \in ready

\* x[i] for x in scores raises a TypeError when some x is None
SumFails == \E k \in 1..Len(scores) : scores[k] = None

\* [sum([x[i] for x in scores]) for i in range(4)]
SummedScores ==
    [i \in 1..4 |-> SumValues([k \in 1..Len(scores) |-> scores[k][i]])]

\* float(1.0 - pE) is 0.0: pE = pTies**2 + 2*(pNoTies/2.0)**2 is 1.0 exactly when
\* pTies = _ties / float(_ties_total or 1) is 1.0
KappaDivisionByZero(sums) ==
    LET ties == sums[3]
        total == IF sums[4] = 0 THEN 1 ELSE sums[4]
    IN  (total - ties) * (total + 3 * ties) = 0

FileRows ==
    [srclang : {"ces", "hin"}, trglang : {"eng"}, srcIndex : {1}, judgeId : Coders,
     cols : {<<[id |-> <<(<<"a">>)>>, rank |-> <<1>>], [id |-> <<(<<"b">>)>>, rank |-> r]>> :
                r \in {<<1>>, <<2>>}}
            \cup {<<[id |-> <<(<<"b">>)>>, rank |-> <<1>>], [id |-> <<(<<"a">>)>>, rank |-> r]>> :
                r \in {<<1>>, <<2>>}}]

\* Rows of one language pair and one judge over two segments.
BarrierRows ==
    [srclang : {"ces"}, trglang : {"eng"}, srcIndex : Segments, judgeId : {"A"},
     cols : {<<[id |-> <<(<<"a">>)>>, rank |-> <<1>>], [id |-> <<(<<"b">>)>>, rank |-> r]>> :
                r \in {<<1>>, <<2>>}}]

\* Lines 129-132: without --inter and --intra the mode defaults to inter.
ParsedArgs ==
    {[inter |-> (i \/ (~i /\ ~a)), intra |-> a] : i \in BOOLEAN, a \in BOOLEAN}

InitFrom(Rows, n) ==
    /\ arg = None
    /\ ret = None
    /\ args \in ParsedArgs
    /\ rows \in SeqsOf(Rows, 0, n)
    /\ results_data = <<>>
    /\ pc = "read"
    /\ lp = 0
    /\ handles = {}
    /\ outqueue = <<>>
    /\ handling = None
    /\ scores = <<>>
    /\ ready = {}
    /\ raised = {}
    /\ average_scores = None
    /\ output = <<>>
    /\ error = "none"

Init == InitFrom(FileRows, MaxRows)

InitBarrier == InitFrom(BarrierRows, MaxBarrierRows)

\* One pass of the loop over the rows of the results file.
ReadRow ==
    /\ pc = "read"
    /\ rows # <<>>
    /\ LET row == Head(rows)
       IN  results_data' = Appended(LanguagePair(row), row.srcIndex, RowJudgements(row))
    /\ rows' = Tail(rows)
    /\ UNCHANGED <<arg, ret, args, pc, lp, handles, outqueue, handling, scores, ready,
                   raised, average_scores, output, error>>

\* The file is read: create the pool and enter the loop over language_pairs.
CreatePool ==
    /\ pc = "read"
    /\ rows = <<>>
    /\ pc' = "dispatch"
    /\ lp' = 1
    /\ UNCHANGED <<arg, ret, args, rows, results_data, handles, outqueue, handling,
                   scores, ready, raised, average_scores, output, error>>

\* pool.apply_async(compute_agreement_scores, args=..., callback=scores.append)
Dispatch(u) ==
    /\ pc = "dispatch"
    /\ u \in Units(language_pairs[lp]) \ handles
    /\ handles' = handles \cup {u}
    /\ UNCHANGED <<arg, ret, args, rows, results_data, pc, lp, outqueue, handling,
                   scores, ready, raised, average_scores, output, error>>

\* A pool worker runs compute_agreement_scores on a dispatched unit.
WorkerRun(u) ==
    /\ u \in handles
    /\ u \notin DOMAIN outqueue \cup ToSet(handling) \cup ready
    /\ outqueue' = [v \in DOMAIN outqueue \cup {u} |->
                       IF v = u THEN compute_agreement_scores(UnitData(language_pairs[lp], u))
                       ELSE outqueue[v]]
    /\ UNCHANGED <<arg, ret, args, rows, results_data, pc, lp, handles, handling,
                   scores, ready, raised, average_scores, output, error>>

\* The same, with an exception raised inside the try block: the except clause
\* prints the trace and the function returns None.
WorkerRaise(u) ==
    /\ u \in handles
    /\ u \notin DOMAIN outqueue \cup ToSet(handling) \cup ready
    /\ outqueue' = [v \in DOMAIN outqueue \cup {u} |->
                       IF v = u THEN None ELSE outqueue[v]]
    /\ raised' = raised \cup {u}
    /\ UNCHANGED <<arg, ret, args, rows, results_data, pc, lp, handles, handling,
                   scores, ready, average_scores, output, error>>

\* The pool's result handler takes a returned value and calls the callback.
Callback(u) ==
    /\ handling = None
    /\ u \in DOMAIN outqueue
    /\ scores' = Append(scores, outqueue[u])
    /\ outqueue' = [v \in DOMAIN outqueue \ {u} |-> outqueue[v]]
    /\ handling' = <<u>>
    /\ UNCHANGED <<arg, ret, args, rows, results_data, pc, lp, handles, ready, raised,
                   average_scores, output, error>>

\* ... and then marks the handle ready.
SetReady ==
    /\ handling # None
    /\ ready' = ready \cup {handling[1]}
    /\ handling' = None
    /\ UNCHANGED <<arg, ret, args, rows, results_data, pc, lp, handles, outqueue,
                   scores, raised, average_scores, output, error>>

\* Every unit of the pair is dispatched and the polling loop ends: sum the scores.
Reduce ==
    /\ pc = "dispatch"
    /\ Units(language_pairs[lp]) \subseteq handles
    /\ AllReady
    /\ IF SumFails
       THEN /\ error' = "TypeError"
            /\ pc' = "crashed"
            /\ UNCHANGED average_scores
       ELSE /\ average_scores' = SummedScores
            /\ pc' = "report"
            /\ UNCHANGED error
    /\ UNCHANGED <<arg, ret, args, rows, results_data, lp, handles, outqueue, handling,
                   scores, ready, raised, output>>

\* Compute pA, pE and kappa, print the line unless _comparable is 0, and go on
\* to the next language pair with fresh scores and handles.
Report ==
    /\ pc = "report"
    /\ IF KappaDivisionByZero(average_scores)
       THEN /\ error' = "ZeroDivisionError"
            /\ pc' = "crashed"
            /\ UNCHANGED <<lp, handles, outqueue, handling, scores, ready, raised,
                           average_scores, output>>
       ELSE /\ output' = IF average_scores[2] = 0 THEN output
                         ELSE Append(output, [language_pair |-> language_pairs[lp],
                                              scores |-> average_scores])
            /\ pc' = IF lp = Len(language_pairs) THEN "done" ELSE "dispatch"
            /\ lp' = IF lp = Len(language_pairs) THEN lp ELSE lp + 1
            /\ handles' = {}
            /\ ready' = {}
            /\ raised' = {}
            /\ scores' = <<>>
            /\ average_scores' = None
            /\ UNCHANGED <<outqueue, handling, error>>
    /\ UNCHANGED <<arg, ret, args, rows, results_data>>

AllUnits == [segment : Segments, coder : Coders \cup {AllCoders}]

Next ==
    \/ ReadRow
    \/ CreatePool
    \/ \E u \in AllUnits : Dispatch(u)
    \/ \E u \in AllUnits : WorkerRun(u)
    \/ \E u \in AllUnits : Callback(u)
    \/ SetReady
    \/ Reduce
    \/ Report

Spec == Init /\ [][Next]_vars

NextFault == Next \/ \E u \in AllUnits : WorkerRaise(u)

SpecBarrier == InitBarrier /\ [][Next]_vars

SpecFault == InitBarrier /\ [][NextFault]_vars

-----------------------------------------------------------------------------
(* Properties.                                                              *)

\* The index pairs i < j of a list
IndexPairs(list) == {p \in (1..Len(list)) \X (1..Len(list)) : p[1] < p[2]}

\* The participants of a label as the claim words them: the set of its
\* normalised operands.
Participants(label) == ToSet(extract_system_ids_from_label(label))

\* The element-wise sum of the counts of every unit of a set
SumOfUnits(language_pair, units) ==
    [i \in 1..4 |->
        SumValues([u \in units |->
                      compute_agreement_scores(UnitData(language_pair, u))[i]])]

\* The number of index pairs of the judgements of a language pair's segments
\* that satisfy Counted(first, second)
CountedPairs(language_pair, Counted(_, _)) ==
    LET segments == SegmentsData(language_pair)
    IN  SumValues([s \in DOMAIN segments |->
            Cardinality({p \in IndexPairs(segments[s]) :
                            Counted(segments[s][p[1]], segments[s][p[2]])})])

\* C1: the sums of a language pair are computed only after every unit
\* dispatched for it has completed (worker done, callback run, handle ready), and
\* they are the element-wise sum of the counts of all its units, each counted
\* once, whatever the order of completion.
C1_BarrierThenSum ==
    average_scores # None =>
        /\ handles = Units(language_pairs[lp])
        /\ ready = handles
        /\ outqueue = <<>>
        /\ handling = None
        /\ Len(scores) = Cardinality(handles)
        /\ average_scores = SumOfUnits(language_pairs[lp], handles)

\* Two units with different counts, summed after the unit of segment 2
\* completed first.
C1_Witness ==
    /\ pc = "report"
    /\ Cardinality(handles) = 2
    /\ scores[1] # scores[2]
    /\ scores[1] = compute_agreement_scores(
                       UnitData(language_pairs[lp],
                                CHOOSE u \in handles : u.segment = 2))

\* C2: when a unit raises inside compute_agreement_scores, the reducer still
\* completes the language pair and the sums are those of the units that did not
\* raise.
C2_FailureStaysLocal ==
    (raised # {} /\ pc \in {"report", "crashed"}) =>
        /\ pc = "report"
        /\ average_scores = SumOfUnits(language_pairs[lp], handles \ raised)

\* The sets of system ids of the operands of a well-formed label
OperandSets(label) ==
    {ToSet(Split(operand, "+")) : operand \in ToSet(SplitOnSeparator(label))}

\* C3: two well-formed labels whose operands denote the same two sets of
\* system ids normalise to equal outputs.
C3_OrderIndependent ==
    (pc = "return" /\ OperandSets(arg[1]) = OperandSets(arg[2])) => ret[1] = ret[2]

\* C4: compute_agreement_scores returns (identical, comparable, ties_cnt,
\* ties_total): ties_total the number of labels, ties_cnt the labels containing
\* '=', comparable the unordered pairs of labels of the same item with equal
\* participant sets, identical those of them with equal label strings.
C4_Counts ==
    pc = "return" =>
        LET samePairs == {p \in IndexPairs(arg) :
                             /\ arg[p[1]][2] = arg[p[2]][2]
                             /\ Participants(arg[p[1]][3]) = Participants(arg[p[2]][3])}
        IN  /\ ret[4] = Len(arg)
            /\ ret[3] = Cardinality({i \in 1..Len(arg) : "=" \in ToSet(arg[i][3])})
            /\ ret[2] = Cardinality(samePairs)
            /\ ret[1] = Cardinality({p \in samePairs : arg[p[1]][3] = arg[p[2]][3]})

\* Three labels over two items: one comparable pair that is not identical, one
\* tie, and a label of the other item that is paired with nothing.
C4_Witness ==
    /\ pc = "return"
    /\ Cardinality({arg[i][2] : i \in 1..Len(arg)}) = 2
    /\ ret = <<0, 1, 1, 3>>

\* C5: for a language pair whose summed comparable count is 0 the report
\* step divides by no zero, prints no line and goes on to the next pair.
C5_DegenerateGuarded ==
    [][(pc = "report" /\ average_scores[2] = 0) =>
          (error' = "none" /\ output' = output /\ pc' \in {"dispatch", "done"})]_vars

\* Same item, comparable labels, different judges
ByDifferentJudges(first, second) ==
    /\ first[2] = second[2]
    /\ Participants(first[3]) = Participants(second[3])
    /\ first[1] # second[1]

\* C6: in inter-annotator mode the comparable count is the number of pairs of
\* judgements of the same item by two different judges; two judgements of one
\* judge are never counted as a pair.
C6_DifferentJudges ==
    (args.inter /\ average_scores # None) =>
        average_scores[2] = CountedPairs(language_pairs[lp], ByDifferentJudges)

\* Same segment (CountedPairs pairs within a segment), same unordered pair of
\* systems
OnSameSystems(first, second) == Participants(first[3]) = Participants(second[3])

\* C7: two judgements of the same segment on the same unordered pair of
\* systems are counted as a comparable pair, whichever system came first in
\* each row.
C7_UnorderedItem ==
    (args.inter /\ average_scores # None) =>
        average_scores[2] = CountedPairs(language_pairs[lp], OnSameSystems)

\* The slots of a row (columns with a system id) and its ranked slots
RowSlots(row) ==
    {y \in 1..MAX_NUMBER_OF_SYSTEMS : y <= Len(row.cols) /\ row.cols[y].id # None}

RankedSlots(row) ==
    {y \in RowSlots(row) : row.cols[y].rank # None /\ row.cols[y].rank[1] # -1}

\* C8: a row with n >= 2 slots of which m are ranked yields C(m,2)
\* judgements, one for each pair of ranked slots a before b, labelled a>b, a<b or
\* a=b by their ranks; a row with fewer than two slots yields none.
C8_Encoder ==
    pc = "return" =>
        LET ranked == RankedSlots(arg)
            m == Cardinality(ranked)
            pairs == {p \in ranked \X ranked : p[1] < p[2]}
            Before(p, q) == p[1] < q[1] \/ (p[1] = q[1] /\ p[2] < q[2])
            id(y) == arg.cols[y].id[1]
            rank(y) == arg.cols[y].rank[1]
            sep(p) == IF rank(p[1]) < rank(p[2]) THEN ">"
                      ELSE IF rank(p[1]) > rank(p[2]) THEN "<" ELSE "="
        IN  IF Cardinality(RowSlots(arg)) < 2 THEN ret = <<>>
            ELSE /\ 2 * Len(ret) = m * (m - 1)
                 /\ \A p \in pairs :
                        LET k == 1 + Cardinality({q \in pairs : Before(q, p)})
                        IN  /\ ret[k][1] = arg.judgeId
                            /\ ret[k][2] = Str(arg.srcIndex) \o <<".">> \o id(p[1])
                                               \o <<".">> \o id(p[2])
                            /\ ret[k][3] = id(p[1]) \o <<sep(p)>> \o id(p[2])

\* A row of four slots, the second skipped, the others ranked: three
\* judgements.
C8_Witness ==
    /\ pc = "return"
    /\ Cardinality(RowSlots(arg)) = 4
    /\ arg.cols[1].rank = <<2>>
    /\ arg.cols[2].rank = <<-1>>
    /\ Cardinality(RankedSlots(arg)) = 3
    /\ Len(ret) = 3

\* C9: at the end of the run every language pair of the input whose summed
\* comparable count is above 0 has exactly one output line, no other pair has a
\* line, and the lines are in the order of language_pairs.
C9_EveryPairReported ==
    pc = "done" =>
        LET Line(l) == {k \in 1..Len(output) : output[k].language_pair = l}
            Place(l) == CHOOSE i \in 1..Len(language_pairs) : language_pairs[i] = l
        IN  /\ \A l \in DOMAIN results_data :
                   SumOfUnits(l, Units(l))[2] > 0 => Cardinality(Line(l)) = 1
            /\ \A k \in 1..Len(output) :
                   /\ output[k].language_pair \in DOMAIN results_data
                   /\ output[k].scores[2] > 0
            /\ \A j, k \in 1..Len(output) :
                   j < k => Place(output[j].language_pair) < Place(output[k].language_pair)

\* C10: in intra-annotator mode every judgement handed to the aggregator
\* belongs to an item the coder judged at least twice in the segment, and the
\* judgements of one item carry distinct synthetic coder ids.
C10_RepeatedItemsOnly ==
    (~args.inter /\ pc = "dispatch") =>
        \A u \in handles :
            LET data == UnitData(language_pairs[lp], u)
            IN  \A k \in 1..Len(data) :
                    /\ Cardinality({m \in 1..Len(data) : data[m][2] = data[k][2]}) >= 2
                    /\ \A m \in 1..Len(data) :
                           (m # k /\ data[m][2] = data[k][2]) => data[m][1] # data[k][1]

====
